---- MODULE Spec2Model ----
(***************************************************************************)
(* Model of the ARIMA demo of Section_1_Introduction_tutorial.ipynb:       *)
(* generate_arima_data (the synthetic series generator), arima_data (the   *)
(* fit-and-forecast driver) and the slider widget that calls it.           *)
(*                                                                         *)
(* Numbers.  Slider coefficients are multiples of lag_step; the model      *)
(* writes a coefficient as an integer numerator over LagDen, and a series  *)
(* value as an integer count of 1/Unit(T), T = n_samp + burnin, which      *)
(* makes the ARMA recursion exact in the integers.  The normal draws of    *)
(* numpy's RandomState are a fixed stream per seed (Stream).               *)
(***************************************************************************)
EXTENDS Integers, Sequences, FiniteSets, TLC

VARIABLES
    \* ---- the widget and the running invocation of arima_data
    sliders,      \* value of every slider of arima_w, by keyword
    displayed,    \* arima_widget has been displayed
    nchanges,     \* slider changes made so far
    ncalls,       \* invocations of arima_data begun so far
    pc,           \* position of the running invocation ("idle": none)
    args,         \* keyword arguments of the running / last invocation
    rng_state,    \* local rng_state of arima_data: <<>> or <<RandomState>>
    y,            \* local y: the generated series
    printed,      \* <<isstationary, isinvertible>> printed by the generator
    fitting,      \* local flag fitting
    model,        \* <<>> or <<the SARIMAX model built>>
    results,      \* <<>> or <<the fit result>> with its prediction span
    figure,       \* <<>> or <<what the invocation rendered>>
    outcome,      \* "ok", or the exception the invocation ended with
    log,          \* steps of the running / last invocation, in order
    \* ---- direct calls of generate_arima_data
    g_in,         \* arguments of the calls
    g_pc,         \* how many of the calls have been made
    g_first,      \* locals of the first call
    g_second,     \* locals of a second call with the same arguments
    g_base        \* locals of a call with i_order = 0, all else the same

wvars == <<sliders, displayed, nchanges, ncalls, pc, args, rng_state, y,
           printed, fitting, model, results, figure, outcome, log>>
gvars == <<g_in, g_pc, g_first, g_second, g_base>>
vars == <<wvars, gvars>>

----------------------------------------------------------------------------
\* Bounds of the model

\* coefficients are numerators over LagDen (LagDen = 2: halves)
LagDen == 2
\* samples generated per call (n_samp, 120 in the notebook)
n_samp == 4
\* training prefix (n_train, 108 in the notebook)
n_train == 3
\* forecast horizon (n_forecast, 24 in the notebook)
n_forecast == 2
\* default burn-in of generate_arima_data (10 in the notebook)
burnin_default == 2
\* largest integration order of a direct call
MaxIOrder == 2
\* slider changes explored
MaxChanges == 3

\* Program constants
int_min == 0
int_max == 4
start_year == 1990

rand_state_init == 42
ylim_init == 5
p_init == 0
d_init == 0
q_init == 0

----------------------------------------------------------------------------
\* Sequences and arithmetic

Abs(x) == IF x < 0 THEN -x ELSE x

Max(a, b) == IF a >= b THEN a ELSE b

Min(a, b) == IF a <= b THEN a ELSE b

RECURSIVE Pow(_, _)
Pow(b, e) == IF e = 0 THEN 1 ELSE b * Pow(b, e - 1)

\* value of one unit (1.0) of a series simulated for T steps
Unit(T) == Pow(LagDen, T)

\* a[:k]
Take(s, k) == SubSeq(s, 1, Min(k, Len(s)))

\* a[k:]
Drop(s, k) == SubSeq(s, Min(k, Len(s)) + 1, Len(s))

\* -a
Neg(s) == [i \in 1..Len(s) |-> -s[i]]

\* np.repeat(v, n)
Repeat(v, n) == [i \in 1..n |-> v]

RECURSIVE CumsumFrom(_, _, _)
CumsumFrom(s, acc, out) ==
    IF Len(out) = Len(s) THEN out
    ELSE CumsumFrom(s, acc + s[Len(out) + 1], Append(out, acc + s[Len(out) + 1]))

\* np.cumsum(s)
Cumsum(s) == CumsumFrom(s, 0, <<>>)

\* np.diff(s): the backward difference, one element shorter (the generator
\* never differences; the properties below do)
Diff(s) == [i \in 1..(Len(s) - 1) |-> s[i + 1] - s[i]]

RECURSIVE DiffN(_, _)
DiffN(s, k) == IF k = 0 \/ Len(s) = 0 THEN s ELSE DiffN(Diff(s), k - 1)

----------------------------------------------------------------------------
\* numpy.random.RandomState

Seeds == {rand_state_init, 7}

\* the k-th standard-normal draw of the stream seeded with seed
Stream(seed, k) == ((seed * k + k * k * k + (seed \div 3)) % 5) - 2

\* np.random.RandomState(seed)
RandomState(seed) == [seed |-> seed, pos |-> 0]

\* rng.randn(k): k draws, and the generator advanced past them
randn(rng, k) ==
    [values |-> [i \in 1..k |-> Stream(rng.seed, rng.pos + i)],
     rng    |-> [rng EXCEPT !.pos = rng.pos + k]]

----------------------------------------------------------------------------
\* statsmodels: ArmaProcess and arma_generate_sample

\* c[1] + c[2] z + ... has every root outside the closed unit disc
\* (Schur-Cohn reduction on the integer coefficients)
RECURSIVE RootsOutsideUnitCircle(_)
RootsOutsideUnitCircle(c) ==
    LET n == Len(c) IN
    IF n <= 1 THEN TRUE
    ELSE /\ Abs(c[1]) > Abs(c[n])
         /\ RootsOutsideUnitCircle(
                [i \in 1..(n - 1) |-> c[1] * c[i] - c[n] * c[n + 1 - i]])

\* ArmaProcess(ar, ma).isstationary
isstationary(ar) == RootsOutsideUnitCircle(ar)

\* ArmaProcess(ar, ma).isinvertible
isinvertible(ma) == RootsOutsideUnitCircle(ma)

\* sum over k >= from of c[k + 1] * s[t - k], the terms before s[1] being 0
RECURSIVE Convolve(_, _, _, _)
Convolve(c, s, t, k) ==
    IF k + 1 > Len(c) \/ t - k < 1 THEN 0
    ELSE c[k + 1] * s[t - k] + Convolve(c, s, t, k + 1)

\* scipy.signal.lfilter(b, a, x), zero initial state:
\* a[0] out[t] = b[0] x[t] + b[1] x[t-1] + ... - a[1] out[t-1] - ...
RECURSIVE lfilterFrom(_, _, _, _)
lfilterFrom(b, a, x, out) ==
    IF Len(out) = Len(x) THEN out
    ELSE LET t == Len(out) + 1 IN
         lfilterFrom(b, a, x,
             Append(out, (Convolve(b, x, t, 0) - Convolve(a, out, t, 1)) \div a[1]))

lfilter(b, a, x) == lfilterFrom(b, a, x, <<>>)

\* (mutation) the burn-in prefix is not discarded
arma_generate_sample_keeping_burnin(ar, ma, nsample, sigma, draws, burnin) ==
    LET eta == [i \in 1..(nsample + burnin) |->
                    sigma * draws[i] * Pow(LagDen, nsample + burnin)]
    IN  lfilterFrom(ma, ar, eta, <<>>)

\* arma_generate_sample(ar, ma, nsample, sigma, distrvs, burnin), draws being
\* distrvs(nsample + burnin)
arma_generate_sample(ar, ma, nsample, sigma, draws, burnin) ==
    LET eta == [i \in 1..(nsample + burnin) |->
                    sigma * draws[i] * Unit(nsample + burnin)]
    IN  Drop(lfilter(ma, ar, eta), burnin)

----------------------------------------------------------------------------
\* generate_arima_data

\* (mutation) the AR coefficients are not negated
ArPolyNotNegated(arparams) == <<LagDen>> \o arparams

\* ar = np.r_[1, -arparams]
ArPoly(arparams) == <<LagDen>> \o Neg(arparams)

\* ma = np.r_[1, maparams]
MaPoly(maparams) == <<LagDen>> \o maparams

\* (mutation) the generator handed over is ignored: always a fresh, unseeded one
RngAlwaysFresh(rng, entropy) == RandomState(entropy)

\* rng_state, or a RandomState seeded from the system's entropy when None
RngOrFresh(rng, entropy) == IF rng = <<>> THEN RandomState(entropy) ELSE rng[1]

\* y + np.cumsum(np.repeat(lin_trend, n_samp)) when lin_trend is not None
AddLinTrend(s, lin_trend, nsample, T) ==
    IF lin_trend # <<>>
    THEN LET ramp == Cumsum(Repeat((lin_trend[1] * Unit(T)) \div LagDen, nsample))
         IN  [i \in 1..Len(s) |-> s[i] + ramp[i]]
    ELSE s

RECURSIVE CumsumTimes(_, _)
CumsumTimes(s, k) == IF k <= 0 THEN s ELSE CumsumTimes(Cumsum(s), k - 1)

\* (mutation) range(i_order + 1): one cumulative sum too many
IntegrateOnceMore(s, i_order) == CumsumTimes(s, i_order + 1)

\* for i in range(i_order): y = y.cumsum()
RECURSIVE Integrate(_, _)
Integrate(s, i_order) ==
    IF i_order <= 0 THEN s ELSE Integrate(Cumsum(s), i_order - 1)

\* (mutation) the trend is added after the cumulative sums, not before
generate_arima_data_trend_last(arparams, maparams, i_order, nsample, rng, sigma, burnin, lin_trend, entropy) ==
    LET ar     == ArPoly(arparams)
        ma     == MaPoly(maparams)
        drawn  == randn(RngOrFresh(rng, entropy), nsample + burnin)
        sample == arma_generate_sample(ar, ma, nsample, sigma, drawn.values, burnin)
        summed == CumsumTimes(sample, i_order)
    IN  [sample       |-> sample,
         trended      |-> AddLinTrend(sample, lin_trend, nsample, nsample + burnin),
         y            |-> AddLinTrend(summed, lin_trend, nsample, nsample + burnin),
         isstationary |-> isstationary(ar),
         isinvertible |-> isinvertible(ma),
         draws        |-> drawn.values,
         rng_state    |-> drawn.rng]

\* The call's locals: the ARMA sample, the series after the trend step, the
\* series returned, the two properties printed, and the generator as the call
\* leaves it.  entropy seeds the generator when rng is None.
generate_arima_data(arparams, maparams, i_order, nsample, rng, sigma, burnin, lin_trend, entropy) ==
    LET ar     == ArPoly(arparams)
        ma     == MaPoly(maparams)
        drawn  == randn(RngOrFresh(rng, entropy), nsample + burnin)
        sample == arma_generate_sample(ar, ma, nsample, sigma, drawn.values, burnin)
        trended == AddLinTrend(sample, lin_trend, nsample, nsample + burnin)
    IN  [sample       |-> sample,
         trended      |-> trended,
         y            |-> Integrate(trended, i_order),
         isstationary |-> isstationary(ar),
         isinvertible |-> isinvertible(ma),
         draws        |-> drawn.values,
         rng_state    |-> drawn.rng]

\* (mutation) one generator shared by all calls, seeded by the first
ReuseRngState(rand_state, left) ==
    IF left = <<>> THEN <<RandomState(rand_state)>> ELSE left

\* rng_state = np.random.RandomState(rand_state): a generator of the call's
\* own, whatever generator an earlier call left behind
NewRngState(rand_state, left) == <<RandomState(rand_state)>>

----------------------------------------------------------------------------
\* Direct calls of generate_arima_data: the arguments are drawn once, then the
\* function is called with them twice, and once more with i_order = 0.

ArParamSets == {<<>>, <<1>>, <<LagDen>>, <<-1>>, <<1, -1>>, <<0, 1>>}
MaParamSets == {<<>>, <<1>>, <<-LagDen>>, <<1, 1>>}
LinTrends == {<<>>, <<0>>, <<1>>}
Sigmas == {1, 2}

GenInputs ==
    [arparams  : ArParamSets,
     maparams  : MaParamSets,
     i_order   : 0..MaxIOrder,
     n_samp    : {n_samp - 1, n_samp},
     seed      : {<<>>} \cup {<<s>> : s \in Seeds},
     sigma     : Sigmas,
     burnin    : 0..burnin_default,
     lin_trend : LinTrends]

\* the generator a caller hands over: None, or one seeded as arima_data does
CallerRng(seed, left) ==
    IF seed = <<>> THEN <<>> ELSE NewRngState(seed[1], left)

GenCall(in, i_order, left, entropy) ==
    generate_arima_data(in.arparams, in.maparams, i_order, in.n_samp,
                        CallerRng(in.seed, left), in.sigma, in.burnin,
                        in.lin_trend, entropy)

GenFirst ==
    /\ g_pc = 0
    /\ \E entropy \in Seeds :
          g_first' = <<GenCall(g_in, g_in.i_order, <<>>, entropy)>>
    /\ g_pc' = 1
    /\ UNCHANGED <<g_in, g_second, g_base, wvars>>

GenSecond ==
    /\ g_pc = 1
    /\ \E entropy \in Seeds :
          g_second' = <<GenCall(g_in, g_in.i_order,
                                <<g_first[1].rng_state>>, entropy)>>
    /\ g_pc' = 2
    /\ UNCHANGED <<g_in, g_first, g_base, wvars>>

GenBase ==
    /\ g_pc = 2
    /\ \E entropy \in Seeds :
          g_base' = <<GenCall(g_in, 0, <<g_second[1].rng_state>>, entropy)>>
    /\ g_pc' = 3
    /\ UNCHANGED <<g_in, g_first, g_second, wvars>>

GenNext == GenFirst \/ GenSecond \/ GenBase

----------------------------------------------------------------------------
\* The widget: the sliders of arima_w and the arguments they give arima_data

\* IntSlider(min=int_min, max=int_max): the order sliders
Orders == int_min..int_max

\* FloatSlider(min=lag_min, max=lag_max, step=lag_step): -1.0, 0.0 and 0.5 of
\* the coefficient grid
LagValues == {-LagDen, 0, 1}

\* rand_slider and ylim_slider: two values of each range
YLims == {ylim_init, ylim_init + 1}

OrderSliders == {"ar_order", "i_order", "ma_order", "p", "d", "q"}
LagSliders == {"ar_lag1", "ar_lag2", "ar_lag3", "ar_lag4",
               "ma_lag1", "ma_lag2", "ma_lag3", "ma_lag4"}
SliderNames == OrderSliders \cup LagSliders \cup {"rand_state", "ylim"}

SliderRange(name) ==
    IF name \in OrderSliders THEN Orders
    ELSE IF name \in LagSliders THEN LagValues
    ELSE IF name = "rand_state" THEN Seeds
    ELSE YLims

\* (mutation) the p slider starts at 1
SlidersInitModelOrderOne ==
    [ar_order |-> 0, ar_lag1 |-> 0, ar_lag2 |-> 0, ar_lag3 |-> 0, ar_lag4 |-> 0,
     i_order |-> 0,
     ma_order |-> 0, ma_lag1 |-> 0, ma_lag2 |-> 0, ma_lag3 |-> 0, ma_lag4 |-> 0,
     rand_state |-> rand_state_init, ylim |-> ylim_init,
     p |-> 1, d |-> d_init, q |-> q_init]

\* the value= of every slider
SlidersInit ==
    [ar_order |-> 0, ar_lag1 |-> 0, ar_lag2 |-> 0, ar_lag3 |-> 0, ar_lag4 |-> 0,
     i_order |-> 0,
     ma_order |-> 0, ma_lag1 |-> 0, ma_lag2 |-> 0, ma_lag3 |-> 0, ma_lag4 |-> 0,
     rand_state |-> rand_state_init, ylim |-> ylim_init,
     p |-> p_init, d |-> d_init, q |-> q_init]

\* interactive(arima_data, ...): the sliders' values and the fixed() arguments
InteractiveArgs(sl) ==
    [n_samp |-> n_samp,
     ar_order |-> sl.ar_order, ar_lag1 |-> sl.ar_lag1, ar_lag2 |-> sl.ar_lag2,
     ar_lag3 |-> sl.ar_lag3, ar_lag4 |-> sl.ar_lag4,
     i_order |-> sl.i_order,
     ma_order |-> sl.ma_order, ma_lag1 |-> sl.ma_lag1, ma_lag2 |-> sl.ma_lag2,
     ma_lag3 |-> sl.ma_lag3, ma_lag4 |-> sl.ma_lag4,
     rand_state |-> sl.rand_state, ylim |-> sl.ylim,
     p |-> sl.p, d |-> sl.d, q |-> sl.q,
     n_train |-> n_train, n_forecast |-> n_forecast,
     dynamic |-> FALSE, lin_trend |-> <<>>, verbose |-> TRUE]

\* the call arima_widget.on_displayed makes: the defaults, spelled out
DisplayedArgs ==
    [n_samp |-> n_samp,
     ar_order |-> 0, ar_lag1 |-> 0, ar_lag2 |-> 0, ar_lag3 |-> 0, ar_lag4 |-> 0,
     i_order |-> 0,
     ma_order |-> 0, ma_lag1 |-> 0, ma_lag2 |-> 0, ma_lag3 |-> 0, ma_lag4 |-> 0,
     rand_state |-> rand_state_init, ylim |-> ylim_init,
     p |-> p_init, d |-> d_init, q |-> q_init,
     n_train |-> n_train, n_forecast |-> n_forecast,
     dynamic |-> FALSE, lin_trend |-> <<>>, verbose |-> TRUE]

----------------------------------------------------------------------------
\* arima_data

\* (mutation) the slice [:ar_order] is left out
arparams_unsliced(a) == <<a.ar_lag1, a.ar_lag2, a.ar_lag3, a.ar_lag4>>

\* arparams = np.array([ar_lag1, ..., ar_lag4])[:ar_order]
arparams(a) == Take(<<a.ar_lag1, a.ar_lag2, a.ar_lag3, a.ar_lag4>>, a.ar_order)

\* maparams = np.array([ma_lag1, ..., ma_lag4])[:ma_order]
maparams(a) == Take(<<a.ma_lag1, a.ma_lag2, a.ma_lag3, a.ma_lag4>>, a.ma_order)

\* y = generate_arima_data(arparams, maparams, i_order, n_samp=n_samp,
\*                         rng_state=rng_state, lin_trend=lin_trend, ...)
\* sigma and burnin are left at their defaults
GenerateCall(a, rng) ==
    generate_arima_data(arparams(a), maparams(a), a.i_order, a.n_samp, rng,
                        1, burnin_default, a.lin_trend, a.rand_state)

\* (mutation) the model orders p and q are not looked at
GateIgnoringModelOrders(a) ==
    \/ (a.ar_order > 0 /\ a.ar_lag1 # 0)
    \/ (a.ma_order > 0 /\ a.ma_lag1 # 0)

\* (mutation) the gate looks at every coefficient in use, not only at lag 1
GateAnyUsedCoefficient(a) ==
    /\ \/ \E i \in 1..Len(arparams(a)) : arparams(a)[i] # 0
       \/ \E j \in 1..Len(maparams(a)) : maparams(a)[j] # 0
    /\ (a.p > 0 \/ a.q > 0)

\* the condition of the if that sets fitting = True
Gate(a) ==
    /\ \/ (a.ar_order > 0 /\ a.ar_lag1 # 0)
       \/ (a.ma_order > 0 /\ a.ma_lag1 # 0)
    /\ (a.p > 0 \/ a.q > 0)

\* (mutation) stationarity is enforced
enforce_stationarity_on == TRUE

\* the two enforce_ keywords given to SARIMAX
enforce_stationarity == FALSE

enforce_invertibility == FALSE

\* (mutation) the model is built on the whole series, not the training part
SARIMAX_on_all_data(a, series) ==
    [endog |-> series,
     order |-> <<a.p, a.d, a.q>>,
     trend |-> "n",
     enforce_stationarity |-> enforce_stationarity,
     enforce_invertibility |-> enforce_invertibility]

\* model = sm.tsa.SARIMAX(training, order=(p, d, q), trend=trend, ...)
\* with training = df.iloc[:n_train]['value'] and trend 'n' on both branches
SARIMAX(a, series) ==
    [endog |-> Take(series, a.n_train),
     order |-> <<a.p, a.d, a.q>>,
     trend |-> "n",
     enforce_stationarity |-> enforce_stationarity,
     enforce_invertibility |-> enforce_invertibility]

\* How model.fit() can end.  The estimator rejects starting parameters that
\* are not stationary (not invertible) only when told to enforce it; whether
\* the starting parameters are depends on the data.
FitOutcomes(m) ==
    IF \/ (m.enforce_stationarity /\ m.order[1] > 0)
       \/ (m.enforce_invertibility /\ m.order[3] > 0)
    THEN {"ok", "ValueError"}
    ELSE {"ok"}

\* results.loglikelihood_burn: the diffuse states, all of them when
\* stationarity is not enforced
loglikelihood_burn(m) ==
    LET k_order == Max(m.order[1], m.order[3] + 1)
    IN  (IF m.enforce_stationarity THEN 0 ELSE k_order) + m.order[2]

\* Dates are <<year, month>>, the day being the first of the month throughout
\* (freq='MS'); date + pd.DateOffset(months = m)
DateOffset(date, m) ==
    LET t == date[1] * 12 + (date[2] - 1) + m
    IN  <<t \div 12, (t % 12) + 1>>

\* pd.date_range(start='1990-01-01', freq='MS', periods=n)
date_range(n) == [i \in 1..n |-> DateOffset(<<start_year, 1>>, i - 1)]

\* index[k], k counted from 0.  The notebook's index has n_samp = 120 dates
\* and is read at loglikelihood_burn (at most 9) and at n_train = 108, always
\* inside it; a position past the end of the shorter index here is read off
\* the same monthly grid.
IndexAt(index, k) == IF k < Len(index) THEN index[k + 1] ELSE DateOffset(index[1], k)

\* date.strftime('%Y-%m-%d')
strftime(date) == <<date[1], date[2], 1>>

\* get_prediction finding the position of a date string on the monthly grid
\* that starts at index[0]; the grid runs on past the training data
get_loc(index, str) == (str[1] * 12 + (str[2] - 1)) - (index[1][1] * 12 + (index[1][2] - 1))

\* pred_begin = df.index[results.loglikelihood_burn]
pred_begin(index, m) == IndexAt(index, loglikelihood_burn(m))

\* pred_end = df.index[n_train] + pd.DateOffset(months = n_forecast - 1)
pred_end(index, a) == DateOffset(IndexAt(index, a.n_train), a.n_forecast - 1)

\* pred.predicted_mean.index (and pred.conf_int().index): the months from
\* start to end, both included
PredictionIndex(index, start, end) ==
    LET b == get_loc(index, start)
        e == get_loc(index, end)
    IN  [i \in 1..Max(0, e - b + 1) |-> DateOffset(index[1], b + i - 1)]

\* (df['value'] - pred_mean).dropna().index: the dates both have
ResidualIndex(index, pindex) ==
    SelectSeq(index, LAMBDA dt : \E i \in 1..Len(pindex) : pindex[i] = dt)

\* results = model.fit(), with what get_prediction and the residual plot
\* span: pred_begin and pred_end are positions of df.index, counted from 0
FitResult(a, m, series) ==
    LET index == date_range(Len(series))
        start == strftime(pred_begin(index, m))
        end   == strftime(pred_end(index, a))
        pidx  == PredictionIndex(index, start, end)
    IN  [model      |-> m,
         nobs       |-> Len(m.endog),
         pred_begin |-> get_loc(index, start),
         pred_end   |-> get_loc(index, end),
         pred_index |-> pidx,
         resid_index |-> ResidualIndex(index, pidx),
         dynamic    |-> a.dynamic]

\* (mutation) the shading and the summary are not guarded
ReadsFitAlways(fit) == TRUE

\* `if fitting:` in front of the shading and the summary, the statements
\* that read pred_end and results after the fit block
ReadsFit(fit) == fit

\* ylim = ylim*(10**(i_order))
ScaledYlim(a) == a.ylim * Pow(10, a.i_order)

\* what the invocation has drawn when it returns: the y-limits of the left
\* panel, the shaded forecast region (if any) and whether the summary printed
Figure(a, fit, res) ==
    [ylim    |-> ScaledYlim(a),
     shaded  |-> IF fit THEN <<a.n_train, res[1].pred_end>> ELSE <<>>,
     summary |-> fit]

----------------------------------------------------------------------------
\* The notebook's kernel runs one callback at a time, to its end

\* (mutation) a callback may start while another is running
CallbackAnytime == TRUE

CallbackReady == pc = "idle"

\* entering arima_data(**a): no local is bound yet
BeginCall(a) ==
    /\ args' = a
    /\ ncalls' = ncalls + 1
    /\ pc' = "generate"
    /\ y' = <<>>
    /\ printed' = <<>>
    /\ fitting' = FALSE
    /\ model' = <<>>
    /\ results' = <<>>
    /\ figure' = <<>>
    /\ outcome' = "ok"
    /\ log' = <<>>
    /\ UNCHANGED rng_state

\* the cell `arima_widget`: the widget is displayed and on_displayed fires
Display ==
    /\ ~displayed
    /\ CallbackReady
    /\ displayed' = TRUE
    /\ BeginCall(DisplayedArgs)
    /\ UNCHANGED <<sliders, nchanges, gvars>>

\* the user releases a slider on a new value: interactive calls arima_data
SliderChange ==
    /\ displayed
    /\ CallbackReady
    /\ nchanges < MaxChanges
    /\ \E name \in SliderNames :
          \E v \in SliderRange(name) \ {sliders[name]} :
             /\ sliders' = [sliders EXCEPT ![name] = v]
             /\ BeginCall(InteractiveArgs(sliders'))
    /\ nchanges' = nchanges + 1
    /\ UNCHANGED <<displayed, gvars>>

\* rng_state = ...; arparams, maparams = ...; y = generate_arima_data(...)
Generate ==
    /\ pc = "generate"
    /\ LET g == GenerateCall(args, NewRngState(args.rand_state, rng_state))
       IN  /\ y' = g.y
           /\ rng_state' = <<g.rng_state>>
           /\ printed' = IF args.verbose
                         THEN <<g.isstationary, g.isinvertible>> ELSE <<>>
    /\ log' = Append(log, "generate")
    /\ pc' = "gate"
    /\ UNCHANGED <<sliders, displayed, nchanges, ncalls, args, fitting, model,
                   results, figure, outcome, gvars>>

\* the data is plotted, the gate holds: the model is built and fit, the
\* prediction and the residuals are plotted
FitModel ==
    /\ pc = "gate"
    /\ Gate(args)
    /\ fitting' = TRUE
    /\ LET m == SARIMAX(args, y)
       IN  /\ model' = <<m>>
           /\ \E o \in FitOutcomes(m) :
                 IF o = "ok"
                 THEN /\ results' = <<FitResult(args, m, y)>>
                      /\ log' = log \o <<"plot_data", "fit", "plot_fit">>
                      /\ pc' = "render"
                      /\ UNCHANGED outcome
                 ELSE /\ outcome' = o
                      /\ log' = log \o <<"plot_data", "fit">>
                      /\ pc' = "idle"
                      /\ UNCHANGED results
    /\ UNCHANGED <<sliders, displayed, nchanges, ncalls, args, rng_state, y,
                   printed, figure, gvars>>

\* the data is plotted, the gate does not hold: fitting stays False
SkipFit ==
    /\ pc = "gate"
    /\ ~Gate(args)
    /\ fitting' = FALSE
    /\ log' = Append(log, "plot_data")
    /\ pc' = "render"
    /\ UNCHANGED <<sliders, displayed, nchanges, ncalls, args, rng_state, y,
                   printed, model, results, figure, outcome, gvars>>

\* ylim scaling and legend; if fitting: the shading, plt.show(), the summary
Render ==
    /\ pc = "render"
    /\ IF ReadsFit(fitting) /\ results = <<>>
       THEN /\ outcome' = "NameError"
            /\ UNCHANGED <<figure, log>>
       ELSE /\ figure' = <<Figure(args, ReadsFit(fitting), results)>>
            /\ log' = Append(log, "render")
            /\ UNCHANGED outcome
    /\ pc' = "idle"
    /\ UNCHANGED <<sliders, displayed, nchanges, ncalls, args, rng_state, y,
                   printed, fitting, model, results, gvars>>

----------------------------------------------------------------------------
\* Specifications

\* the notebook after the widget cell has run, before it is displayed
WidgetInit ==
    /\ sliders = SlidersInit
    /\ displayed = FALSE
    /\ nchanges = 0
    /\ ncalls = 0
    /\ pc = "idle"
    /\ args = DisplayedArgs
    /\ rng_state = <<>>
    /\ y = <<>>
    /\ printed = <<>>
    /\ fitting = FALSE
    /\ model = <<>>
    /\ results = <<>>
    /\ figure = <<>>
    /\ outcome = "ok"
    /\ log = <<>>

NoDirectCalls ==
    /\ g_in = <<>>
    /\ g_pc = 0
    /\ g_first = <<>>
    /\ g_second = <<>>
    /\ g_base = <<>>

Init == WidgetInit /\ NoDirectCalls

Next == Display \/ SliderChange \/ Generate \/ FitModel \/ SkipFit \/ Render

Spec == Init /\ [][Next]_vars

GenInit ==
    /\ WidgetInit
    /\ g_in \in GenInputs
    /\ g_pc = 0
    /\ g_first = <<>>
    /\ g_second = <<>>
    /\ g_base = <<>>

GenSpec == GenInit /\ [][GenNext]_vars

----------------------------------------------------------------------------
\* Properties

\* some coefficient handed to the generator is not zero
UsedCoefficientNonzero(a) ==
    \/ \E i \in 1..Len(arparams(a)) : arparams(a)[i] # 0
    \/ \E j \in 1..Len(maparams(a)) : maparams(a)[j] # 0

\* C1: whenever arima_data fits (fitting is True, a SARIMAX model is built
\* or a fit result with its confidence interval exists), some coefficient
\* used for generation is nonzero and p > 0 or q > 0.  So no model is fit
\* when every used coefficient is zero, nor when p = q = 0.
C1_FitOnlyIfGated ==
    (fitting \/ model # <<>> \/ results # <<>>)
        => (UsedCoefficientNonzero(args) /\ (args.p > 0 \/ args.q > 0))

\* an invocation with positive orders on both sides, whose used coefficients
\* are all zero, has returned without fitting
C1_Witness_ZeroCoefficientsSkipFit ==
    /\ pc = "idle"
    /\ figure # <<>>
    /\ args.ar_order > 0
    /\ args.p > 0
    /\ ~UsedCoefficientNonzero(args)
    /\ ~fitting /\ model = <<>> /\ results = <<>>

\* the direct calls are seeded: rng_state is a RandomState built from a seed
Seeded == g_in.seed # <<>>

\* C2: with a fixed seed, two calls of the generator with identical
\* arguments return the same series, index by index.
C2_SeededCallsAgree ==
    (g_pc >= 2 /\ Seeded) => g_first[1].y = g_second[1].y

\* two seeded calls have returned the same series, one that is not constant
C2_Witness_TwoSeededCalls ==
    /\ g_pc >= 2
    /\ Seeded
    /\ g_first[1].y = g_second[1].y
    /\ \E i \in 1..Len(g_first[1].y) : g_first[1].y[i] # g_first[1].y[1]

\* C3: differencing the returned series i_order times gives back the series
\* as it was before integration (ARMA sample plus trend) from index i_order
\* on; for i_order = 0 the returned series is that series.
C3_DifferencingUndoesIntegration ==
    g_pc >= 1 =>
        /\ DiffN(g_first[1].y, g_in.i_order)
              = Drop(g_first[1].trended, g_in.i_order)
        /\ (g_in.i_order = 0 => g_first[1].y = g_first[1].trended)

\* a call with i_order = 2 has returned a series that integration changed
C3_Witness_TwiceIntegrated ==
    /\ g_pc >= 1
    /\ g_in.i_order = 2
    /\ g_first[1].y # g_first[1].trended
    /\ Len(DiffN(g_first[1].y, 2)) = g_in.n_samp - 2

\* C4: for the same seed and arguments, the first difference of the series
\* generated with i_order = 1 is the series generated with i_order = 0 (from
\* its second value on), and both calls drew the same innovations.
C4_FirstDifferenceMatchesBase ==
    (g_pc = 3 /\ Seeded /\ g_in.i_order = 1) =>
        /\ Diff(g_second[1].y) = Drop(g_base[1].y, 1)
        /\ g_second[1].draws = g_base[1].draws
        /\ g_second[1].sample = g_base[1].sample

\* seeded calls with i_order = 1 and with i_order = 0 have both returned,
\* and the integrated series differs from the base series
C4_Witness_OrderOneAndBase ==
    /\ g_pc = 3
    /\ Seeded
    /\ g_in.i_order = 1
    /\ g_in.arparams # <<>>
    /\ g_second[1].y # g_base[1].y

\* the innovations of a call: sigma * the draws, in the series' unit
Eta(in, c) ==
    [k \in 1..Len(c.draws) |->
        in.sigma * c.draws[k] * Unit(in.n_samp + in.burnin)]

\* C5: every call returns exactly n_samp values: n_samp + burnin innovations
\* are drawn and filtered, the first burnin values of the filtered series
\* are dropped, and the trend and the cumulative sums keep the length.
C5_ReturnsNSampValues ==
    g_pc >= 1 =>
        LET c == g_first[1]
            full == arma_generate_sample(ArPoly(g_in.arparams),
                        MaPoly(g_in.maparams), g_in.n_samp + g_in.burnin,
                        g_in.sigma, c.draws, 0)
        IN  /\ Len(c.y) = g_in.n_samp
            /\ Len(c.trended) = g_in.n_samp
            /\ Len(c.sample) = g_in.n_samp
            /\ Len(c.draws) = g_in.n_samp + g_in.burnin
            /\ c.rng_state.pos = g_in.n_samp + g_in.burnin
            /\ Len(full) = g_in.n_samp + g_in.burnin
            /\ c.sample = Drop(full, g_in.burnin)

\* a call with burn-in, trend and integration has returned
C5_Witness_BurninTrendIntegration ==
    /\ g_pc >= 1
    /\ g_in.burnin > 0
    /\ g_in.lin_trend # <<>>
    /\ g_in.i_order > 0
    /\ g_in.arparams # <<>>
    /\ Len(g_first[1].y) = g_in.n_samp

\* s[u], and 0 before the start of s
At(s, u) == IF u >= 1 /\ u <= Len(s) THEN s[u] ELSE 0

\* c[i] s[t-i] + c[i+1] s[t-i-1] + ...
RECURSIVE LagSum(_, _, _, _)
LagSum(c, s, t, i) ==
    IF i > Len(c) THEN 0 ELSE c[i] * At(s, t - i) + LagSum(c, s, t, i + 1)

\* C10: the ARMA sample obeys
\*   y[t] = phi1 y[t-1] + ... + phip y[t-p] + e[t] + theta1 e[t-1] + ...
\* at every index whose lagged values are in the sample (at every index when
\* there is no burn-in, the values before the start being 0); with both
\* vectors empty the sample is the innovations, and so is the returned series
\* when there is no trend and no integration.
C10_ArmaRecursion ==
    g_pc >= 1 =>
        LET c == g_first[1]
            e == Eta(g_in, c)
            b == g_in.burnin
        IN  /\ \A t \in 1..Len(c.sample) :
                  (t > Len(g_in.arparams) \/ b = 0) =>
                      LagDen * (c.sample[t] - e[b + t])
                          = LagSum(g_in.arparams, c.sample, t, 1)
                              + LagSum(g_in.maparams, e, b + t, 1)
            /\ (g_in.arparams = <<>> /\ g_in.maparams = <<>>) =>
                  /\ c.sample = Drop(e, b)
                  /\ (g_in.lin_trend = <<>> /\ g_in.i_order = 0)
                        => c.y = Drop(e, b)

\* a call with AR and MA coefficients and burn-in has returned a sample that
\* is not the innovations
C10_Witness_ArmaSample ==
    /\ g_pc >= 1
    /\ g_in.arparams = <<1, -1>>
    /\ g_in.maparams = <<1, 1>>
    /\ g_in.burnin > 0
    /\ g_first[1].sample # Drop(Eta(g_in, g_first[1]), g_in.burnin)

\* the steps an invocation takes, in order, without and with a fit
StepsNoFit == <<"generate", "plot_data", "render">>
StepsFit == <<"generate", "plot_data", "fit", "plot_fit", "render">>

IsPrefix(a, b) == Len(a) <= Len(b) /\ a = SubSeq(b, 1, Len(a))

\* C6: when an invocation has returned, its series and its fit / no-fit
\* decision are functions of the current parameter values alone: the series
\* is the one a generator freshly seeded with rand_state gives for the
\* current coefficients and orders, the decision is the gate on the current
\* arguments, and after a slider change the arguments are the sliders' values.
C6_InvocationSelfContained ==
    (pc = "idle" /\ ncalls > 0) =>
        /\ y = GenerateCall(args, <<RandomState(args.rand_state)>>).y
        /\ rng_state = <<[seed |-> args.rand_state,
                          pos |-> args.n_samp + burnin_default]>>
        /\ fitting = Gate(args)
        /\ (results # <<>>) = Gate(args)
        /\ (nchanges > 0 => args = InteractiveArgs(sliders))

\* after three slider changes an invocation has returned a series that is
\* not all zero, and it did not fit
C6_Witness_ThirdInvocation ==
    /\ pc = "idle"
    /\ nchanges = 3
    /\ args.ar_order > 0
    /\ args.ar_lag1 # 0
    /\ args.rand_state # rand_state_init
    /\ \E i \in 1..Len(y) : y[i] # 0
    /\ ~fitting

\* what holds of the steps taken so far, in every state
StepsInOrder ==
    /\ (displayed => ncalls = nchanges + 1)
    /\ (~displayed => ncalls = 0 /\ nchanges = 0)
    /\ (IsPrefix(log, StepsNoFit) \/ IsPrefix(log, StepsFit))
    /\ (pc = "idle" /\ ncalls > 0 => log \in {StepsNoFit, StepsFit})
    /\ (model # <<>> => Len(y) = args.n_samp)
    /\ (figure # <<>> /\ fitting => results # <<>>)

\* C7: every slider change starts exactly one invocation, an invocation runs
\* generate, then (if the gate holds) fit, then render, each step after the
\* one before it has finished, and no invocation starts while one is running.
C7_OneSynchronousRecomputation ==
    /\ []StepsInOrder
    /\ [][/\ (nchanges' # nchanges =>
                 nchanges' = nchanges + 1 /\ ncalls' = ncalls + 1)
          /\ (ncalls' # ncalls =>
                 ncalls' = ncalls + 1 /\ pc = "idle" /\ pc' = "generate")
          /\ (pc # "idle" => sliders' = sliders /\ args' = args)]_vars

\* the third slider change has run a whole invocation with a fit
C7_Witness_FitInvocationDone ==
    /\ pc = "idle"
    /\ nchanges = 3
    /\ ncalls = 4
    /\ log = StepsFit

\* C8: a non-stationary or non-invertible parameterization is only reported:
\* the generator prints the two properties and returns its n_samp values,
\* the model is built with both enforcements off, the fit runs whenever the
\* gate holds, and no invocation ends in an error.
C8_NothingRejected ==
    /\ outcome = "ok"
    /\ (pc \in {"gate", "render"} \/ (pc = "idle" /\ ncalls > 0)) =>
          /\ printed = <<isstationary(ArPoly(arparams(args))),
                         isinvertible(MaPoly(maparams(args)))>>
          /\ Len(y) = args.n_samp
    /\ (model # <<>>) =>
          /\ ~model[1].enforce_stationarity
          /\ ~model[1].enforce_invertibility
    /\ (pc \in {"render"} \/ (pc = "idle" /\ ncalls > 0)) =>
          (Gate(args) => model # <<>> /\ results # <<>>)

\* a series generated from a non-stationary parameterization has been fit
C8_Witness_NonStationaryFit ==
    /\ pc = "idle"
    /\ printed # <<>>
    /\ ~printed[1]
    /\ Len(y) = args.n_samp
    /\ fitting
    /\ results # <<>>
    /\ outcome = "ok"

\* lin_trend * k for step k = 1..n, in the unit of the call's series; all 0
\* when lin_trend is None
Ramp(in) ==
    [k \in 1..in.n_samp |->
        IF in.lin_trend = <<>> THEN 0
        ELSE k * ((in.lin_trend[1] * Unit(in.n_samp + in.burnin)) \div LagDen)]

PlusRamp(s, in) == [k \in 1..Len(s) |-> s[k] + Ramp(in)[k]]

\* C11: a linear trend adds lin_trend * k to the k-th sample (k = 1, 2, ...)
\* of the ARMA series, and it is added before integration: the series
\* returned is the i_order-fold cumulative sum of (ARMA sample + ramp).  With
\* lin_trend None the trend step leaves the series as it is.
C11_TrendBeforeIntegration ==
    g_pc >= 1 =>
        LET c == g_first[1] IN
        /\ c.trended = PlusRamp(c.sample, g_in)
        /\ c.y = CumsumTimes(PlusRamp(c.sample, g_in), g_in.i_order)
        /\ (g_in.lin_trend = <<>> => c.trended = c.sample)

\* a call with a nonzero trend and i_order = 2 has returned, and its series
\* is not the ramp added to the twice-summed ARMA sample
C11_Witness_TrendThenIntegrated ==
    /\ g_pc >= 1
    /\ g_in.lin_trend = <<1>>
    /\ g_in.i_order = 2
    /\ g_first[1].trended # g_first[1].sample
    /\ g_first[1].y # PlusRamp(CumsumTimes(g_first[1].sample, 2), g_in)

\* the arguments with every lag beyond the declared orders set to 0
WithoutUnusedLags(a) ==
    [a EXCEPT !.ar_lag1 = IF a.ar_order >= 1 THEN @ ELSE 0,
              !.ar_lag2 = IF a.ar_order >= 2 THEN @ ELSE 0,
              !.ar_lag3 = IF a.ar_order >= 3 THEN @ ELSE 0,
              !.ar_lag4 = IF a.ar_order >= 4 THEN @ ELSE 0,
              !.ma_lag1 = IF a.ma_order >= 1 THEN @ ELSE 0,
              !.ma_lag2 = IF a.ma_order >= 2 THEN @ ELSE 0,
              !.ma_lag3 = IF a.ma_order >= 3 THEN @ ELSE 0,
              !.ma_lag4 = IF a.ma_order >= 4 THEN @ ELSE 0]

ArLags(a) == <<a.ar_lag1, a.ar_lag2, a.ar_lag3, a.ar_lag4>>
MaLags(a) == <<a.ma_lag1, a.ma_lag2, a.ma_lag3, a.ma_lag4>>

\* C12: in every configuration the widget reaches, the coefficient vectors
\* handed to the generator have exactly ar_order and ma_order entries, the
\* first ar_order of ar_lag1..4 and the first ma_order of ma_lag1..4 in lag
\* order; and when an invocation returns with some lag beyond the declared
\* orders set, its series is the one generated with those lags at 0 and the
\* properties printed are those of the vectors of the declared lengths.
C12_VectorsMatchOrders ==
    /\ args.ar_order \in 0..4 /\ args.ma_order \in 0..4
    /\ Len(arparams(args)) = args.ar_order
    /\ Len(maparams(args)) = args.ma_order
    /\ \A i \in 1..args.ar_order : arparams(args)[i] = ArLags(args)[i]
    /\ \A j \in 1..args.ma_order : maparams(args)[j] = MaLags(args)[j]
    /\ (pc = "idle" /\ ncalls > 0) =>
          /\ WithoutUnusedLags(args) # args =>
                y = GenerateCall(WithoutUnusedLags(args),
                                 <<RandomState(args.rand_state)>>).y
          /\ printed = <<isstationary(<<LagDen>> \o Neg(SubSeq(ArLags(args), 1, args.ar_order))),
                         isinvertible(<<LagDen>> \o SubSeq(MaLags(args), 1, args.ma_order))>>

\* a series has been generated with ar_order = 1, a nonzero lag-1 and a
\* nonzero lag-2 coefficient: the lag-2 slider is set but not used
C12_Witness_LagBeyondOrder ==
    /\ pc = "idle"
    /\ args.ar_order = 1
    /\ args.ar_lag1 # 0
    /\ args.ar_lag2 # 0
    /\ Len(y) = args.n_samp
    /\ \E i \in 1..Len(y) : y[i] # 0


----------------------------------------------------------------------------
\* the positions, counted from 0 at 1990-01, of a sequence of dates
PositionsOf(dates) ==
    {(dates[i][1] - start_year) * 12 + (dates[i][2] - 1) : i \in 1..Len(dates)}

\* C13: whenever a model has been fit, it was fit on exactly the first n_train
\* points of the generated series; the prediction (and its confidence
\* interval, which has the same index) spans the positions from
\* loglikelihood_burn to n_train + n_forecast - 1, each once, so that it
\* covers exactly n_forecast steps after the training part when the burn lies
\* inside the training part; and the residuals are drawn on the overlap of
\* prediction and data, loglikelihood_burn .. min(n_samp, n_train+n_forecast)-1
C13_FitAndPredictionSpans ==
    results # <<>> =>
        LET r    == results[1]
            burn == loglikelihood_burn(r.model)
            last == args.n_train + args.n_forecast - 1
        IN  /\ r.model.endog = SubSeq(y, 1, args.n_train)
            /\ r.nobs = args.n_train
            /\ r.pred_begin = burn
            /\ r.pred_end = last
            /\ PositionsOf(r.pred_index) = burn..last
            /\ Len(r.pred_index) = Cardinality(burn..last)
            /\ burn <= args.n_train =>
                  Cardinality({k \in PositionsOf(r.pred_index) : k >= args.n_train})
                     = args.n_forecast
            /\ PositionsOf(r.resid_index)
                  = burn..(Min(args.n_samp, args.n_train + args.n_forecast) - 1)

C13_Witness_ForecastPastData ==
    /\ pc = "idle" /\ results # <<>> /\ figure # <<>>
    /\ loglikelihood_burn(results[1].model) <= args.n_train
    /\ results[1].resid_index # <<>>
    /\ results[1].pred_end >= args.n_samp
    /\ Len(results[1].pred_index) > Len(results[1].resid_index)
    /\ \E i \in 1..Len(y) : y[i] # 0


----------------------------------------------------------------------------
\* C14: once an invocation has passed the gate, fitting is exactly
\* ((ar_order > 0 and ar_lag1 != 0) or (ma_order > 0 and ma_lag1 != 0))
\* and (p > 0 or q > 0): only the lag-1 coefficients are inspected, and
\* replacing i_order and d by any other slider value leaves the gate's
\* verdict what it was
C14_GateReadsLagOneOnly ==
    (pc = "render" \/ (pc = "idle" /\ ncalls > 0)) =>
        /\ fitting = (/\ \/ (args.ar_order > 0 /\ args.ar_lag1 # 0)
                         \/ (args.ma_order > 0 /\ args.ma_lag1 # 0)
                      /\ (args.p > 0 \/ args.q > 0))
        /\ \A i \in Orders : \A dd \in Orders :
              Gate([args EXCEPT !.i_order = i, !.d = dd]) = fitting
        /\ (model # <<>>) = fitting

C14_Witness_OnlyHigherLagNonzero ==
    /\ pc = "idle"
    /\ figure # <<>>
    /\ args.ar_order >= 2
    /\ args.ar_lag1 = 0
    /\ args.ar_lag2 # 0
    /\ args.p >= 1
    /\ UsedCoefficientNonzero(args)
    /\ ~fitting /\ model = <<>>

----------------------------------------------------------------------------
\* C15: no invocation ends in a NameError; a fit result exists only where
\* the gate held and is the one computed from this invocation's arguments
\* and series; and the shaded forecast region and the summary are drawn
\* exactly when fitting ran in the invocation, the shading ending at the
\* pred_end of its own fit
C15_FitReadOnlyWhereComputed ==
    /\ outcome # "NameError"
    /\ results # <<>> =>
          /\ fitting /\ Gate(args)
          /\ model = <<SARIMAX(args, y)>>
          /\ results = <<FitResult(args, model[1], y)>>
    /\ figure # <<>> =>
          /\ figure[1].summary = fitting
          /\ (figure[1].shaded # <<>>) = fitting
          /\ (\E i \in 1..Len(log) : log[i] = "fit") = fitting
          /\ fitting =>
                /\ results # <<>>
                /\ figure[1].shaded = <<args.n_train, results[1].pred_end>>

C15_Witness_ShadedAfterUnfitCalls ==
    /\ pc = "idle"
    /\ ncalls >= 2
    /\ fitting
    /\ figure # <<>>
    /\ figure[1].summary
    /\ figure[1].shaded = <<args.n_train, args.n_train + args.n_forecast - 1>>

----------------------------------------------------------------------------
\* C16: the sliders start with every order, coefficient and model order at
\* zero and the seed at 42, and the invocation made on display fits nothing;
\* a fitting invocation comes after at least three slider changes, with a
\* generation order, its lag-1 coefficient and p or q moved off their
\* initial values
C16_FitNeedsThreeChanges ==
    /\ nchanges = 0 =>
          /\ sliders = SlidersInit
          /\ \A name \in OrderSliders \cup LagSliders : sliders[name] = 0
          /\ sliders.rand_state = 42
          /\ ~fitting /\ model = <<>> /\ results = <<>>
    /\ fitting =>
          /\ nchanges >= 3
          /\ \/ /\ sliders.ar_order # SlidersInit.ar_order
                /\ sliders.ar_lag1 # SlidersInit.ar_lag1
             \/ /\ sliders.ma_order # SlidersInit.ma_order
                /\ sliders.ma_lag1 # SlidersInit.ma_lag1
          /\ \/ sliders.p # SlidersInit.p
             \/ sliders.q # SlidersInit.q

C16_Witness_FitAfterThreeChanges ==
    /\ fitting
    /\ nchanges = 3
    /\ sliders.ma_order # 0
    /\ sliders.ma_lag1 # 0
    /\ sliders.q # 0
    /\ sliders.ar_order = 0 /\ sliders.p = 0

====
